---- MODULE Spec2Model ----
(***************************************************************************)
(* Model of src/app.py (BybitArbitrageMonitor): the ticker feed client     *)
(* get_tickers with its rate limiting, retry and fallback, the symbol      *)
(* parser, the grouping and bridging of prices, the pairwise spread        *)
(* detection and the ranking done by scan_opportunities.                   *)
(*                                                                         *)
(* Time is counted in tenths of a second.  Prices are exact decimals:      *)
(* a grouped price is an integer number of 1/PriceScale units, a bridged   *)
(* (USDT) price an integer number of 1/PriceScale^2 units.                 *)
(***************************************************************************)
EXTENDS Integers, Sequences, FiniteSets, TLC

VARIABLES
    callers,                \* execution contexts that call the shared monitor
    venue,                  \* what the venue may answer an attempt with
    now,                    \* time.time(), in tenths of a second
    last_request_time,      \* self.last_request_time
    json_error_is_request_exception,
                            \* class of the error response.json() raises
    pc,                     \* per caller: position inside get_tickers
    attempt,                \* per caller: loop variable of get_tickers
    wake,                   \* per caller: when the running sleep or request ends
    requests,               \* per caller: outbound requests of the current call
    sleeps,                 \* per caller: backoff delays of the current call
    outcomes,               \* per caller: outcome of each attempt of the call
    ret,                    \* per caller: what get_tickers returned or raised
    scan,                   \* per caller: what scan_opportunities did with it
    calls,                  \* get_tickers calls started so far
    lastDispatchBy,         \* per caller: time of its latest outbound request
    tooClose,               \* two consecutive outbound requests were dispatched
                            \* less than rate_limit_delay apart
    crossTooClose,          \* same, for requests of two different callers
    stage,                  \* position of the pipeline run on one input
    symbol,                 \* argument of parse_symbol
    parsed,                 \* its result
    tickers,                \* the ticker list handed to group_by_base_currency
    grouped_data,           \* its result, an insertion-ordered dict
    min_spread,             \* self.min_spread, in hundredths of a percent
    gen,                    \* how the opportunities of a large scan are spread
    produced,               \* the list opportunities before line 237 sorts it
    opportunities,          \* what calculate_arbitrage_opportunities returns
    result                  \* what scan_opportunities returns

feedVars == <<callers, venue, now, last_request_time, json_error_is_request_exception,
              pc, attempt, wake, requests, sleeps, outcomes, ret, scan, calls,
              lastDispatchBy, tooClose, crossTooClose>>

pipeVars == <<stage, symbol, parsed, tickers, grouped_data, min_spread, gen,
              produced, opportunities, result>>

vars == <<feedVars, pipeVars>>

----------------------------------------------------------------------------
(* Bounds of the model *)

MaxCalls == 2          \* get_tickers calls in one behaviour
BootTime == 100        \* time.time() when the monitor is constructed

Threads == {1, 2}
Jitters == {1, 5}      \* random.uniform(0.1, 0.5), its two ends
Latencies == {0, 2}    \* time a request takes to answer or to fail

----------------------------------------------------------------------------
(* Program constants *)

rate_limit_delay == 1
max_retries == 3

Tenths(seconds) == seconds * 10

NoTime == 0 - 1

----------------------------------------------------------------------------
(* The fallback snapshot *)

_get_fallback_data ==
    << [symbol |-> "BTCUSDT", lastPrice |-> "45000.50", volume24h |-> "15000.5"],
       [symbol |-> "BTCEUR",  lastPrice |-> "41500.25", volume24h |-> "8500.2"],
       [symbol |-> "ETHUSDT", lastPrice |-> "3200.75",  volume24h |-> "25000.8"],
       [symbol |-> "ETHEUR",  lastPrice |-> "2950.50",  volume24h |-> "12000.4"],
       [symbol |-> "ADAUSDT", lastPrice |-> "0.85",     volume24h |-> "50000.2"],
       [symbol |-> "ADAEUR",  lastPrice |-> "0.78",     volume24h |-> "25000.1"],
       [symbol |-> "DOTUSDT", lastPrice |-> "28.50",    volume24h |-> "18000.5"],
       [symbol |-> "DOTEUR",  lastPrice |-> "26.20",    volume24h |-> "9500.8"] >>

(* Ticker lists the venue may answer with *)
LiveLists ==
    { << >>,
      << [symbol |-> "XRPUSDT", lastPrice |-> "0.52", volume24h |-> "900.0"],
         [symbol |-> "XRPEUR",  lastPrice |-> "0.47", volume24h |-> "700.0"] >> }

(* What one attempt of session.get meets: an error raised before any       *)
(* response arrives (connection error, timeout), or a response with a      *)
(* status and a body.  A body is unparseable, or a JSON object holding     *)
(* some of the keys retCode, retMsg, result.list.                          *)
KeySets == { {"retCode", "retMsg", "result.list"},
             {"retCode", "retMsg"},
             {"retMsg", "result.list"} }

NoBody == [json |-> FALSE, keys |-> {}, retCode |-> 0, list |-> << >>]

Bodies ==
    {NoBody} \cup
    { [json |-> TRUE, keys |-> k, retCode |-> c, list |-> l] :
        k \in KeySets, c \in {0, 10001}, l \in LiveLists }

FeedOutcomes ==
    { [raised |-> TRUE, status |-> 0, body |-> NoBody] } \cup
    { [raised |-> FALSE, status |-> s, body |-> NoBody] : s \in {403, 500} } \cup
    { [raised |-> FALSE, status |-> 200, body |-> b] : b \in Bodies }

(* The name the claims give to an attempt's outcome *)
Kind(o) ==
    IF o.raised THEN "conn_error"
    ELSE IF o.status = 403 THEN "forbidden"
    ELSE IF o.status \notin 200..299 THEN "http_error"
    ELSE IF ~o.body.json THEN "bad_json"
    ELSE IF "retCode" \notin o.body.keys THEN "missing_keys"
    ELSE IF o.body.retCode # 0 THEN "app_error"
    ELSE IF "result.list" \notin o.body.keys THEN "missing_keys"
    ELSE "ok"

----------------------------------------------------------------------------
(* Results of get_tickers *)

Pending == [tag |-> "pending", data |-> << >>]
None == [tag |-> "None", data |-> << >>]
Returned(list) == [tag |-> "list", data |-> list]
Raised(name) == [tag |-> name, data |-> << >>]

(* time.sleep(2 ** attempt) of lines 62 and 81 *)
Backoff_linear(a) == Tenths(2 * a)
Backoff(a) == Tenths(2 ^ a)

(* What the body of the try block does with an answered request:           *)
(* "retry" (the continue of lines 63 and 82) or the value handed back.     *)
RetryOrFallback(a) ==
    IF a < max_retries - 1
    THEN [act |-> "retry", value |-> Pending]
    ELSE [act |-> "return", value |-> Returned(_get_fallback_data)]

Handle(o, a, jsonErrIsReqExc) ==
    IF o.raised THEN RetryOrFallback(a)                      \* line 78
    ELSE IF o.status = 403 THEN RetryOrFallback(a)           \* lines 58-66
    ELSE IF o.status >= 400 THEN RetryOrFallback(a)          \* line 68, then 78
    ELSE IF ~o.body.json THEN                                \* line 70
        IF jsonErrIsReqExc
        THEN RetryOrFallback(a)                              \* caught at line 78
        ELSE [act |-> "return", value |-> None]              \* caught at line 85
    ELSE IF "retCode" \notin o.body.keys THEN                \* line 71
        [act |-> "raise", value |-> Raised("KeyError")]
    ELSE IF o.body.retCode = 0 THEN
        IF "result.list" \in o.body.keys                     \* lines 72-73
        THEN [act |-> "return", value |-> Returned(o.body.list)]
        ELSE [act |-> "raise", value |-> Raised("KeyError")]
    ELSE IF "retMsg" \in o.body.keys                         \* lines 75-76
        THEN [act |-> "return", value |-> None]
        ELSE [act |-> "raise", value |-> Raised("KeyError")]

----------------------------------------------------------------------------
(* Strings are sequences of characters *)

USDT == <<"U", "S", "D", "T">>
EUR == <<"E", "U", "R">>
BTC == <<"B", "T", "C">>
ETH == <<"E", "T", "H">>
USDC == <<"U", "S", "D", "C">>

quote_currencies == <<USDT, EUR, BTC, ETH, USDC>>

(* sorted(s, key=..., reverse=True), key[i] being the key of s[i]:          *)
(* non-increasing by key, elements of equal key in their original order    *)
StableSortDesc(s, key) ==
    LET n == Len(s)
        before(i) == {j \in 1..n : \/ key[j] > key[i]
                                   \/ key[j] = key[i] /\ j < i}
    IN [p \in 1..n |-> s[CHOOSE i \in 1..n : Cardinality(before(i)) = p - 1]]

(* key=len *)
KeyLen(s) == [i \in 1..Len(s) |-> Len(s[i])]

(* symbol.endswith(quote) *)
endswith(s, q) ==
    /\ Len(s) >= Len(q)
    /\ SubSeq(s, Len(s) - Len(q) + 1, Len(s)) = q

(* symbol[:-len(quote)] *)
BaseOf_head(s, q) == SubSeq(s, 1, Len(q))
BaseOf(s, q) == SubSeq(s, 1, Len(s) - Len(q))

NoParse == << << >>, << >> >>

(* sorted(self.quote_currencies, key=len, reverse=True) *)
quotes_longest_first == StableSortDesc(quote_currencies, KeyLen(quote_currencies))

parse_symbol(s) ==
    LET order == quotes_longest_first
        hits == {i \in 1..Len(order) : endswith(s, order[i])}
    IN IF hits = {} THEN NoParse
       ELSE LET first == CHOOSE i \in hits : \A j \in hits : i <= j
            IN <<BaseOf(s, order[first]), order[first]>>

----------------------------------------------------------------------------
(* Numbers.  A grouped price counts units of 1/PriceScale, a bridged price *)
(* units of 1/PriceScale^2; products and the static rates are then exact.  *)

PriceScale == 10000

(* the 6 decimals of round(price, 6), in bridged units *)
Micro == (PriceScale * PriceScale) \div 1000000

(* round(): nearest, ties to even; n >= 0, d > 0 *)
RoundDiv(n, d) ==
    LET q == n \div d
        r == n % d
    IN IF 2 * r < d THEN q
       ELSE IF 2 * r > d THEN q + 1
       ELSE IF q % 2 = 0 THEN q ELSE q + 1

(* A decimal string of a ticker: a number, the empty string, or text that  *)
(* float() rejects                                                         *)
Num(n) == [kind |-> "number", value |-> n]
EmptyStr == [kind |-> "empty", value |-> 0]
NotANumber == [kind |-> "text", value |-> 0]

volume_floor == 100

----------------------------------------------------------------------------
(* group_by_base_currency: an insertion-ordered dict is a sequence of      *)
(* entries with distinct keys                                              *)

HasKey(d, k) == \E i \in 1..Len(d) : d[i].key = k
Get(d, k) == d[CHOOSE i \in 1..Len(d) : d[i].key = k].val
Put(d, k, v) ==
    IF HasKey(d, k)
    THEN [i \in 1..Len(d) |-> IF d[i].key = k THEN [key |-> k, val |-> v] ELSE d[i]]
    ELSE Append(d, [key |-> k, val |-> v])

(* lines 150-171, one ticker *)
GroupTicker(grouped, ticker) ==
    LET base_quote == parse_symbol(ticker.symbol)
        base == base_quote[1]
        quote == base_quote[2]
    IN IF base # << >> /\ quote # << >> /\ ticker.lastPrice.kind # "empty"
       THEN IF ticker.lastPrice.kind # "number" \/ ticker.volume24h.kind # "number"
            THEN grouped                                      \* ValueError
            ELSE IF ticker.volume24h.value < volume_floor
            THEN grouped
            ELSE LET pairs == IF HasKey(grouped, base) THEN Get(grouped, base)
                                                        ELSE << >>
                 IN Put(grouped, base,
                        Put(pairs, quote, [price |-> ticker.lastPrice.value,
                                           volume |-> ticker.volume24h.value,
                                           symbol |-> ticker.symbol]))
       ELSE grouped

RECURSIVE GroupFrom(_, _, _)
GroupFrom(ts, i, grouped) ==
    IF i > Len(ts) THEN grouped
    ELSE GroupFrom(ts, i + 1, GroupTicker(grouped, ts[i]))

group_by_base_currency(ts) == GroupFrom(ts, 1, << >>)

----------------------------------------------------------------------------
(* calculate_arbitrage_opportunities *)

(* conversion_rates of lines 194-197, in hundredths *)
conversion_rates == << [key |-> EUR, val |-> 114], [key |-> USDC, val |-> 100] >>

(* lines 187-199 for one quote of one base: the bridged price, if any *)
Bridge_static_first(g, quote, price) ==
    IF quote = USDT
    THEN [some |-> TRUE, price |-> price * PriceScale]
    ELSE IF HasKey(conversion_rates, quote)
    THEN [some |-> TRUE,
          price |-> (price * Get(conversion_rates, quote) * PriceScale) \div 100]
    ELSE IF HasKey(g, quote) /\ HasKey(Get(g, quote), USDT)
    THEN [some |-> TRUE, price |-> price * Get(Get(g, quote), USDT).price]
    ELSE [some |-> FALSE, price |-> 0]

Bridge(g, quote, price) ==
    IF quote = USDT
    THEN [some |-> TRUE, price |-> price * PriceScale]
    ELSE IF HasKey(g, quote) /\ HasKey(Get(g, quote), USDT)
    THEN [some |-> TRUE, price |-> price * Get(Get(g, quote), USDT).price]
    ELSE IF HasKey(conversion_rates, quote)
    THEN [some |-> TRUE,
          price |-> (price * Get(conversion_rates, quote) * PriceScale) \div 100]
    ELSE [some |-> FALSE, price |-> 0]

(* lines 183-199: the dict usdt_prices of one base *)
usdt_prices(g, pairs) ==
    LET all == [i \in 1..Len(pairs) |->
                   [key |-> pairs[i].key,
                    b |-> Bridge(g, pairs[i].key, pairs[i].val.price)]]
        Resolved(e) == e.b.some
        kept == SelectSeq(all, Resolved)
    IN [i \in 1..Len(kept) |-> [key |-> kept[i].key, val |-> kept[i].b.price]]

(* f"{base_currency}/{quote}" *)
PairName(base, quote) == base \o <<"/">> \o quote

(* line 213: which of the two is the buy side *)
FirstIsBuy_swapped(price1, price2) == price1 > price2
FirstIsBuy(price1, price2) == price1 < price2

(* lines 210-212 *)
Qualifies(price1, price2, ms) ==
    LET lo == IF price1 < price2 THEN price1 ELSE price2
        hi == IF price1 < price2 THEN price2 ELSE price1
    IN (hi - lo) * 10000 >= ms * lo

(* round(spread * 100, 2), in hundredths of a percent *)
SpreadPercent(price1, price2) ==
    LET lo == IF price1 < price2 THEN price1 ELSE price2
        hi == IF price1 < price2 THEN price2 ELSE price1
    IN RoundDiv((hi - lo) * 10000, lo)

(* lines 213-233; prices of the record in millionths (6 decimals) *)
Opportunity(base, quote1, price1, quote2, price2) ==
    LET first == FirstIsBuy(price1, price2)
    IN [base_currency |-> base,
        spread_percent |-> SpreadPercent(price1, price2),
        buy_pair |-> PairName(base, IF first THEN quote1 ELSE quote2),
        sell_pair |-> PairName(base, IF first THEN quote2 ELSE quote1),
        buy_price |-> RoundDiv(IF first THEN price1 ELSE price2, Micro),
        sell_price |-> RoundDiv(IF first THEN price2 ELSE price1, Micro),
        potential_profit |-> SpreadPercent(price1, price2)]

(* the index pairs of lines 204-205, in loop order *)
RECURSIVE IndexPairs(_, _, _)
IndexPairs(i, j, n) ==
    IF i >= n THEN << >>
    ELSE IF j > n THEN IndexPairs(i + 1, i + 2, n)
    ELSE << <<i, j>> >> \o IndexPairs(i, j + 1, n)

(* lines 180-235 for one base *)
OpportunitiesOfBase(g, base, pairs, ms) ==
    IF Len(pairs) < 2 THEN << >>
    ELSE LET prices_list == usdt_prices(g, pairs)
             Emits(ij) ==
                 /\ prices_list[ij[1]].val > 0
                 /\ prices_list[ij[2]].val > 0
                 /\ Qualifies(prices_list[ij[1]].val, prices_list[ij[2]].val, ms)
             emitted == IF Len(prices_list) >= 2
                        THEN SelectSeq(IndexPairs(1, 2, Len(prices_list)), Emits)
                        ELSE << >>
         IN [k \in 1..Len(emitted) |->
                Opportunity(base,
                            prices_list[emitted[k][1]].key,
                            prices_list[emitted[k][1]].val,
                            prices_list[emitted[k][2]].key,
                            prices_list[emitted[k][2]].val)]

RECURSIVE ProducedFrom(_, _, _)
ProducedFrom(g, i, ms) ==
    IF i > Len(g) THEN << >>
    ELSE OpportunitiesOfBase(g, g[i].key, g[i].val, ms) \o ProducedFrom(g, i + 1, ms)

(* key=lambda x: x['spread_percent'] *)
SpreadOf(opps) == [i \in 1..Len(opps) |-> opps[i].spread_percent]

(* line 237 *)
SortedBySpread_reversed(opps) ==
    LET up == StableSortDesc(opps, [i \in 1..Len(opps) |-> 0 - opps[i].spread_percent])
    IN [i \in 1..Len(up) |-> up[Len(up) + 1 - i]]
SortedBySpread(opps) == StableSortDesc(opps, SpreadOf(opps))

calculate_arbitrage_opportunities(g, ms) == SortedBySpread(ProducedFrom(g, 1, ms))

(* opportunities[:20] of line 248 *)
result_limit == 20

Truncated(opps) ==
    SubSeq(opps, 1, IF Len(opps) < result_limit THEN Len(opps) ELSE result_limit)

(* No pipeline input is being processed *)
PipeIdle ==
    /\ stage = "none"
    /\ symbol = << >>
    /\ parsed = NoParse
    /\ tickers = << >>
    /\ grouped_data = << >>
    /\ min_spread = 0
    /\ gen = <<0, 1>>
    /\ produced = << >>
    /\ opportunities = << >>
    /\ result = << >>

----------------------------------------------------------------------------
(* The feed: scan_opportunities calling get_tickers *)

InitFeed(cs, answers) ==
    /\ callers = cs
    /\ venue = answers
    /\ now = BootTime
    /\ last_request_time = 0
    /\ json_error_is_request_exception \in BOOLEAN
    /\ pc = [t \in Threads |-> "idle"]
    /\ attempt = [t \in Threads |-> 0]
    /\ wake = [t \in Threads |-> NoTime]
    /\ requests = [t \in Threads |-> 0]
    /\ sleeps = [t \in Threads |-> << >>]
    /\ outcomes = [t \in Threads |-> << >>]
    /\ ret = [t \in Threads |-> Pending]
    /\ scan = [t \in Threads |-> "idle"]
    /\ calls = 0
    /\ lastDispatchBy = [t \in Threads |-> NoTime]
    /\ tooClose = FALSE
    /\ crossTooClose = FALSE

Init == InitFeed({1}, FeedOutcomes) /\ PipeIdle

(* lines 241 and 38-41: scan_opportunities enters get_tickers *)
Call(t) ==
    /\ t \in callers
    /\ pc[t] = "idle"
    /\ calls < MaxCalls
    /\ calls' = calls + 1
    /\ LET time_since_last == now - last_request_time
       IN IF time_since_last < Tenths(rate_limit_delay)
          THEN /\ pc' = [pc EXCEPT ![t] = "rate_sleep"]
               /\ wake' = [wake EXCEPT
                             ![t] = now + (Tenths(rate_limit_delay) - time_since_last)]
          ELSE \E j \in Jitters :
               /\ pc' = [pc EXCEPT ![t] = "jitter_sleep"]
               /\ wake' = [wake EXCEPT ![t] = now + j]
    /\ attempt' = [attempt EXCEPT ![t] = 0]
    /\ requests' = [requests EXCEPT ![t] = 0]
    /\ sleeps' = [sleeps EXCEPT ![t] = << >>]
    /\ outcomes' = [outcomes EXCEPT ![t] = << >>]
    /\ ret' = [ret EXCEPT ![t] = Pending]
    /\ scan' = [scan EXCEPT ![t] = "in_get_tickers"]
    /\ UNCHANGED <<pipeVars, callers, venue, now, last_request_time, json_error_is_request_exception,
                   lastDispatchBy, tooClose, crossTooClose>>

(* line 41 ends, line 50 starts *)
RateLimitElapsed(t) ==
    /\ t \in callers
    /\ pc[t] = "rate_sleep"
    /\ now >= wake[t]
    /\ \E j \in Jitters :
        /\ pc' = [pc EXCEPT ![t] = "jitter_sleep"]
        /\ wake' = [wake EXCEPT ![t] = now + j]
    /\ UNCHANGED <<pipeVars, callers, venue, now, last_request_time, json_error_is_request_exception,
                   attempt, requests, sleeps, outcomes, ret, scan, calls,
                   lastDispatchBy, tooClose, crossTooClose>>

LatestOf(S) == IF S = {} THEN NoTime ELSE CHOOSE x \in S : \A y \in S : y <= x

(* A request dispatched now comes sooner than rate_limit_delay after one   *)
(* dispatched at time earlier                                              *)
Sooner(earlier) == earlier # NoTime /\ now - earlier < Tenths(rate_limit_delay)

(* line 52: the request leaves *)
Dispatch(t) ==
    /\ t \in callers
    /\ pc[t] = "jitter_sleep"
    /\ now >= wake[t]
    /\ \E l \in Latencies :
        /\ pc' = [pc EXCEPT ![t] = "in_flight"]
        /\ wake' = [wake EXCEPT ![t] = now + l]
    /\ requests' = [requests EXCEPT ![t] = @ + 1]
    /\ LET all == LatestOf({lastDispatchBy[u] : u \in Threads})
           others == LatestOf({lastDispatchBy[u] : u \in Threads \ {t}})
       IN /\ tooClose' = (tooClose \/ Sooner(all))
          /\ crossTooClose' = (crossTooClose \/ Sooner(others))
    /\ lastDispatchBy' = [lastDispatchBy EXCEPT ![t] = now]
    /\ UNCHANGED <<pipeVars, callers, venue, now, last_request_time, json_error_is_request_exception,
                   attempt, sleeps, outcomes, ret, scan, calls>>

(* lines 52-87: the request is answered or fails, and the attempt ends *)
Respond(t) ==
    /\ t \in callers
    /\ pc[t] = "in_flight"
    /\ now >= wake[t]
    /\ \E o \in venue :
        LET h == Handle(o, attempt[t], json_error_is_request_exception)
        IN /\ last_request_time' = IF o.raised THEN last_request_time ELSE now
           /\ outcomes' = [outcomes EXCEPT ![t] = Append(@, Kind(o))]
           /\ IF h.act = "retry"
              THEN /\ pc' = [pc EXCEPT ![t] = "backoff_sleep"]
                   /\ wake' = [wake EXCEPT ![t] = now + Backoff(attempt[t])]
                   /\ sleeps' = [sleeps EXCEPT ![t] = Append(@, Backoff(attempt[t]))]
                   /\ ret' = ret
              ELSE /\ pc' = [pc EXCEPT ![t] = "returned"]
                   /\ wake' = [wake EXCEPT ![t] = NoTime]
                   /\ sleeps' = sleeps
                   /\ ret' = [ret EXCEPT ![t] = h.value]
    /\ UNCHANGED <<pipeVars, callers, venue, now, json_error_is_request_exception, attempt, requests,
                   scan, calls, lastDispatchBy, tooClose, crossTooClose>>

(* lines 62-63 and 81-82 end: the next iteration of the loop starts *)
BackoffElapsed(t) ==
    /\ t \in callers
    /\ pc[t] = "backoff_sleep"
    /\ now >= wake[t]
    /\ attempt' = [attempt EXCEPT ![t] = @ + 1]
    /\ \E j \in Jitters :
        /\ pc' = [pc EXCEPT ![t] = "jitter_sleep"]
        /\ wake' = [wake EXCEPT ![t] = now + j]
    /\ UNCHANGED <<pipeVars, callers, venue, now, last_request_time, json_error_is_request_exception,
                   requests, sleeps, outcomes, ret, scan, calls,
                   lastDispatchBy, tooClose, crossTooClose>>

(* lines 241-245: scan_opportunities receives the tickers; an exception of *)
(* get_tickers passes through it to scan_once (line 275)                   *)
ScanAfterFeed(r) ==
    IF r.tag = "None" THEN "returned_empty_list"
    ELSE IF r.tag = "list" THEN "continues_to_grouping"
    ELSE "raised"

ScanReceives(t) ==
    /\ t \in callers
    /\ pc[t] = "returned"
    /\ pc' = [pc EXCEPT ![t] = "idle"]
    /\ scan' = [scan EXCEPT ![t] = ScanAfterFeed(ret[t])]
    \* the locals of the finished call are gone
    /\ attempt' = [attempt EXCEPT ![t] = 0]
    /\ requests' = [requests EXCEPT ![t] = 0]
    /\ sleeps' = [sleeps EXCEPT ![t] = << >>]
    /\ outcomes' = [outcomes EXCEPT ![t] = << >>]
    /\ ret' = [ret EXCEPT ![t] = Pending]
    /\ UNCHANGED <<pipeVars, callers, venue, now, last_request_time, json_error_is_request_exception,
                   wake, calls, lastDispatchBy, tooClose, crossTooClose>>

(* Time passes, never beyond the end of a running sleep or request.  While *)
(* no call is running it passes until the rate limit no longer matters.    *)
Waiting == {"rate_sleep", "jitter_sleep", "in_flight", "backoff_sleep"}

Latest(a, b) == IF a >= b THEN a ELSE b

Tick ==
    /\ \A t \in callers : pc[t] \in Waiting => now < wake[t]
    /\ \A t \in callers : pc[t] # "returned"
    /\ \/ \E t \in callers : pc[t] # "idle"
       \/ /\ calls < MaxCalls
          /\ now <= Latest(last_request_time,
                           LatestOf({lastDispatchBy[u] : u \in Threads}))
                    + Tenths(rate_limit_delay)
    /\ now' = now + 1
    /\ UNCHANGED <<pipeVars, callers, venue, last_request_time, json_error_is_request_exception,
                   pc, attempt, wake, requests, sleeps, outcomes, ret, scan, calls,
                   lastDispatchBy, tooClose, crossTooClose>>

NextFeed ==
    \/ \E t \in Threads : Call(t)
    \/ \E t \in Threads : RateLimitElapsed(t)
    \/ \E t \in Threads : Dispatch(t)
    \/ \E t \in Threads : Respond(t)
    \/ \E t \in Threads : BackoffElapsed(t)
    \/ \E t \in Threads : ScanReceives(t)
    \/ Tick

Next == NextFeed

(* One caller of the monitor *)
Spec == Init /\ [][Next]_vars

(* Two execution contexts sharing the global monitor (line 251), as two    *)
(* overlapping /api/scan requests do (lines 257-262)                       *)
InitConc ==
    /\ InitFeed({1, 2},
                {o \in FeedOutcomes :
                    \/ Kind(o) \in {"conn_error", "forbidden"}
                    \/ Kind(o) = "ok" /\ o.body.list # << >>})
    /\ PipeIdle

SpecConc == InitConc /\ [][Next]_vars

----------------------------------------------------------------------------
(* The pipeline run on bounded inputs *)

MaxPrefixLen == 2      \* characters in front of a symbol's tail
MaxTickers == 3        \* tickers of one snapshot
MaxProduced == 22      \* opportunities of one large scan

SeqsUpTo(S, n) == UNION {[1..k -> S] : k \in 0..n}

Range(s) == {s[i] : i \in 1..Len(s)}

(* Symbols handed to parse_symbol: a few characters, then a vocabulary     *)
(* entry, a piece of one, or nothing                                       *)
SymbolTails ==
    Range(quote_currencies) \cup
    { << >>, <<"U", "S", "D">>, <<"S", "D", "T">>, <<"T", "C">>,
      <<"T", "H">>, <<"X">> }

ParseSymbols ==
    {pre \o tail : pre \in SeqsUpTo({"A", "B", "U", "E"}, MaxPrefixLen),
                   tail \in SymbolTails}

(* Tickers of a snapshot: one base asset X quoted in four currencies, the  *)
(* USDT tickers of two of these currencies, and malformed records          *)
XBase == <<"X">>

Ticker(sym, price, volume) == [symbol |-> sym, lastPrice |-> price, volume24h |-> volume]

TickerChoices ==
    { Ticker(sym, Num(p), Num(150)) :
        sym \in {XBase \o USDT, XBase \o EUR, XBase \o BTC, XBase \o USDC,
                 EUR \o USDT, BTC \o USDT},
        p \in {3, 5} } \cup
    { Ticker(XBase \o USDC, Num(0), Num(150)),
      Ticker(XBase \o USDT, EmptyStr, Num(150)),
      Ticker(XBase \o EUR, NotANumber, Num(150)),
      Ticker(XBase \o USDC, Num(3), Num(50)),
      Ticker(USDT, Num(3), Num(150)) }

(* min_spread_percent: 0, 0.5 (line 251) and 1.0 (line 16) *)
MinSpreads == {0, 50, 100}

FeedIdle ==
    /\ InitFeed({1}, FeedOutcomes)
    /\ json_error_is_request_exception = TRUE

InitParse ==
    /\ FeedIdle
    /\ stage = "symbol"
    /\ symbol \in ParseSymbols
    /\ parsed = NoParse
    /\ tickers = << >>
    /\ grouped_data = << >>
    /\ min_spread = 0
    /\ gen = <<0, 1>>
    /\ produced = << >>
    /\ opportunities = << >>
    /\ result = << >>

(* line 151 *)
Parse ==
    /\ stage = "symbol"
    /\ parsed' = parse_symbol(symbol)
    /\ stage' = "parsed"
    /\ UNCHANGED <<feedVars, symbol, tickers, grouped_data, min_spread, gen,
                   produced, opportunities, result>>

(* lines 145-173 on a snapshot holding one ticker of that symbol *)
GroupSymbol ==
    /\ stage = "parsed"
    /\ \E price \in {Num(3), EmptyStr}, volume \in {Num(150), Num(50)} :
        /\ tickers' = << Ticker(symbol, price, volume) >>
        /\ grouped_data' = group_by_base_currency(tickers')
    /\ stage' = "grouped"
    /\ UNCHANGED <<feedVars, symbol, parsed, min_spread, gen,
                   produced, opportunities, result>>

NextParse == Parse \/ GroupSymbol

SpecParse == InitParse /\ [][NextParse]_vars

InitArb ==
    /\ FeedIdle
    /\ stage = "tickers"
    /\ symbol = << >>
    /\ parsed = NoParse
    /\ tickers = << >>
    /\ grouped_data = << >>
    /\ min_spread \in MinSpreads
    /\ gen = <<0, 1>>
    /\ produced = << >>
    /\ opportunities = << >>
    /\ result = << >>

(* the venue's list grows by one ticker *)
AddTicker ==
    /\ stage = "tickers"
    /\ Len(tickers) < MaxTickers
    /\ \E t \in TickerChoices : tickers' = Append(tickers, t)
    /\ UNCHANGED <<feedVars, stage, symbol, parsed, grouped_data, min_spread, gen,
                   produced, opportunities, result>>

(* line 245 *)
Group ==
    /\ stage = "tickers"
    /\ grouped_data' = group_by_base_currency(tickers)
    /\ stage' = "grouped"
    /\ UNCHANGED <<feedVars, symbol, parsed, tickers, min_spread, gen,
                   produced, opportunities, result>>

(* line 246 *)
Calculate ==
    /\ stage = "grouped"
    /\ produced' = ProducedFrom(grouped_data, 1, min_spread)
    /\ opportunities' = calculate_arbitrage_opportunities(grouped_data, min_spread)
    /\ stage' = "calculated"
    /\ UNCHANGED <<feedVars, symbol, parsed, tickers, grouped_data, min_spread,
                   gen, result>>

(* line 248 *)
Return ==
    /\ stage = "calculated"
    /\ result' = Truncated(opportunities)
    /\ stage' = "returned"
    /\ UNCHANGED <<feedVars, symbol, parsed, tickers, grouped_data, min_spread,
                   gen, produced, opportunities>>

NextArb == AddTicker \/ Group \/ Calculate \/ Return

SpecArb == InitArb /\ [][NextArb]_vars

(* A scan that produces many opportunities: the k-th one appended by line  *)
(* 235 has spread_percent 50 + 25 * ((a * k) % m) for a pair gen = <<a, m>> *)
Gens == {<<a, m>> : a \in 0..3, m \in 1..4}

NthOpportunity(k, g) ==
    [base_currency |-> XBase,
     spread_percent |-> 50 + 25 * ((g[1] * k) % g[2]),
     buy_pair |-> PairName(XBase, USDT),
     sell_pair |-> PairName(XBase, EUR),
     buy_price |-> k,
     sell_price |-> 2 * k,
     potential_profit |-> 50 + 25 * ((g[1] * k) % g[2])]

InitRank ==
    /\ FeedIdle
    /\ stage = "producing"
    /\ symbol = << >>
    /\ parsed = NoParse
    /\ tickers = << >>
    /\ grouped_data = << >>
    /\ min_spread = 50
    /\ gen \in Gens
    /\ produced = << >>
    /\ opportunities = << >>
    /\ result = << >>

(* line 235 *)
Produce ==
    /\ stage = "producing"
    /\ Len(produced) < MaxProduced
    /\ produced' = Append(produced, NthOpportunity(Len(produced) + 1, gen))
    /\ UNCHANGED <<feedVars, stage, symbol, parsed, tickers, grouped_data,
                   min_spread, gen, opportunities, result>>

(* line 237 *)
Sort ==
    /\ stage = "producing"
    /\ opportunities' = SortedBySpread(produced)
    /\ stage' = "calculated"
    /\ UNCHANGED <<feedVars, symbol, parsed, tickers, grouped_data, min_spread,
                   gen, produced, result>>

NextRank == Produce \/ Sort \/ Return

SpecRank == InitRank /\ [][NextRank]_vars

----------------------------------------------------------------------------
(* Properties of the feed *)

Transient == {"conn_error", "forbidden", "http_error"}

Last(s) == s[Len(s)]

(* C1: get_tickers never raises to its caller: whatever the attempts meet, *)
(* the call hands back the live ticker list, the fallback snapshot or      *)
(* None, and scan_opportunities turns None into an empty list.             *)
C1_NeverRaises ==
    \A t \in callers :
        pc[t] = "returned" =>
            /\ \/ ret[t] = None
               \/ ret[t] = Returned(_get_fallback_data)
               \/ \E l \in LiveLists : ret[t] = Returned(l)
            /\ ScanAfterFeed(ret[t]) # "raised"
            /\ ret[t] = None => ScanAfterFeed(ret[t]) = "returned_empty_list"

(* C2: three consecutive 403 answers in one call: exactly 3 requests, the  *)
(* fallback snapshot is returned, and the backoffs slept are 1 second      *)
(* after the first attempt, 2 seconds after the second, none after the     *)
(* third (strictly increasing).                                            *)
C2_ThreeForbidden ==
    \A t \in callers :
        (pc[t] = "returned" /\ outcomes[t] = <<"forbidden", "forbidden", "forbidden">>) =>
            /\ requests[t] = 3
            /\ ret[t] = Returned(_get_fallback_data)
            /\ sleeps[t] = <<Tenths(1), Tenths(2)>>
            /\ sleeps[t][1] < sleeps[t][2]

C2_Witness ==
    \E t \in callers :
        /\ pc[t] = "returned"
        /\ outcomes[t] = <<"forbidden", "forbidden", "forbidden">>
        /\ ret[t] = Returned(_get_fallback_data)

(* C3: a call issues at most 3 requests; an attempt is followed by another *)
(* one only if it failed transiently (connection error, timeout, 403,      *)
(* other non-2xx status) and was not the third; the backoff slept before   *)
(* retry k is 2^(k-1) seconds.                                             *)
C3_RetryOnlyTransient ==
    \A t \in callers :
        /\ requests[t] <= max_retries
        /\ Len(sleeps[t]) <= Len(outcomes[t])
        /\ \A k \in 1..Len(sleeps[t]) :
            /\ outcomes[t][k] \in Transient
            /\ k < max_retries
            /\ sleeps[t][k] = Tenths(2 ^ (k - 1))

(* C4: an attempt that meets a 2xx answer with an unparseable body or a    *)
(* non-zero retCode ends the poll there: no further request, get_tickers   *)
(* returns None (never the fallback snapshot) and scan_opportunities       *)
(* returns the empty list.                                                 *)
C4_HardFailure ==
    \A t \in callers :
        (outcomes[t] # << >> /\ Last(outcomes[t]) \in {"bad_json", "app_error"}) =>
            /\ pc[t] = "returned"
            /\ ret[t] = None
            /\ ScanAfterFeed(ret[t]) = "returned_empty_list"

(* C5: with a single caller, every two consecutive outbound requests are   *)
(* dispatched at least rate_limit_delay apart, across calls too.           *)
C5_SingleCallerSpacing ==
    Cardinality(callers) = 1 => ~tooClose

(* C6: with two callers sharing the monitor, the outbound requests of the  *)
(* two callers are dispatched at least rate_limit_delay apart in every     *)
(* interleaving.                                                           *)
C6_ConcurrentSpacing ==
    Cardinality(callers) = 2 => ~crossTooClose

----------------------------------------------------------------------------
(* Properties of the pipeline *)

Calculated == stage \in {"calculated", "returned"}

(* C7 as stated: every record has buy_price < sell_price, a spread_percent *)
(* equal to round((sell_price - buy_price) / buy_price * 100, 2) computed  *)
(* from the record's own price fields, and spread_percent >= the minimum   *)
(* spread percent, for any minimum spread.                                 *)
C7_RecordFields ==
    Calculated =>
        \A k \in 1..Len(opportunities) :
            LET o == opportunities[k]
            IN /\ o.buy_price < o.sell_price
               /\ o.buy_price > 0
               /\ o.spread_percent =
                      RoundDiv((o.sell_price - o.buy_price) * 10000, o.buy_price)
               /\ o.spread_percent >= min_spread

(* C7 amended: every record comes from two bridged prices 0 < low <= high  *)
(* of its base (low < high when the minimum spread is positive); its       *)
(* buy_price and sell_price are low and high rounded to 6 decimals, so     *)
(* buy_price <= sell_price; buy_pair names the quote of low; its           *)
(* spread_percent is round((high - low) / low * 100, 2) on the unrounded   *)
(* prices; and (high - low) / low >= min_spread_percent / 100.             *)
C7_FromBridgedPrices ==
    Calculated =>
        \A k \in 1..Len(opportunities) :
            LET o == opportunities[k]
            IN /\ o.buy_price <= o.sell_price
               /\ \E e \in Range(grouped_data) :
                     /\ o.base_currency = e.key
                     /\ Len(e.val) >= 2
                     /\ \E lowq, highq \in Range(usdt_prices(grouped_data, e.val)) :
                         LET low == lowq.val
                             high == highq.val
                         IN /\ lowq.key # highq.key
                            /\ 0 < low /\ low <= high
                            /\ min_spread > 0 => low < high
                            /\ o.buy_price = RoundDiv(low, Micro)
                            /\ o.sell_price = RoundDiv(high, Micro)
                            /\ o.buy_pair = e.key \o <<"/">> \o lowq.key
                            /\ o.sell_pair = e.key \o <<"/">> \o highq.key
                            /\ o.spread_percent = RoundDiv((high - low) * 10000, low)
                            /\ (high - low) * 10000 >= min_spread * low

(* a record whose two prices differ before rounding and are emitted at a   *)
(* positive threshold                                                      *)
C7_Witness ==
    /\ Calculated
    /\ min_spread > 0
    /\ \E k \in 1..Len(opportunities) :
        /\ opportunities[k].buy_price < opportunities[k].sell_price
        /\ opportunities[k].spread_percent >= min_spread

(* C8: the bridged price of quote q with grouped price p is p if q is      *)
(* USDT; else p times the grouped USDT price of q as a base asset when the *)
(* grouped data holds it; else p times 1.14 for EUR or 1.0 for USDC; else  *)
(* q has no bridged price, and the other quotes of the base keep theirs.   *)
LiveRates(q) ==
    {pr.val.price : pr \in
        UNION { {x \in Range(e.val) : x.key = USDT} :
                  e \in {y \in Range(grouped_data) : y.key = q} }}

C8_BridgeOrder ==
    stage # "tickers" =>
        \A e \in Range(grouped_data) :
            LET up == usdt_prices(grouped_data, e.val)
                Bridged(q) == {x.val : x \in {y \in Range(up) : y.key = q}}
            IN \A pr \in Range(e.val) :
                LET q == pr.key
                    p == pr.val.price
                IN Bridged(q) =
                      IF q = USDT THEN {p * PriceScale}
                      ELSE IF LiveRates(q) # {} THEN {p * r : r \in LiveRates(q)}
                      ELSE IF q = EUR THEN {(p * 114 * PriceScale) \div 100}
                      ELSE IF q = USDC THEN {p * PriceScale}
                      ELSE {}

(* a base quoted in EUR while EUR/USDT is grouped at a rate other than     *)
(* 1.14, beside a quote that has no bridge                                 *)
C8_Witness ==
    /\ stage = "grouped"
    /\ \E e \in Range(grouped_data) :
        /\ \E pr \in Range(e.val) :
            /\ pr.key = EUR
            /\ pr.val.price > 0
            /\ LiveRates(EUR) # {}
        /\ \E pr \in Range(e.val) : pr.key = BTC /\ LiveRates(BTC) = {}

(* C9: parse_symbol(S) is (S without its last len(Q) characters, Q) for    *)
(* the longest vocabulary entry Q that is a suffix of S, ("", "") when no  *)
(* entry is a suffix; a symbol with an empty base is never grouped.        *)
IsSuffix(s, q) == \E pre \in {SubSeq(s, 1, n) : n \in 0..Len(s)} : s = pre \o q

C9_ParseSymbol ==
    stage \in {"parsed", "grouped"} =>
        LET M == {q \in Range(quote_currencies) : IsSuffix(symbol, q)}
        IN /\ IF M = {} THEN parsed = NoParse
              ELSE \E Q \in M :
                     /\ \A q \in M : Len(q) <= Len(Q)
                     /\ parsed[2] = Q
                     /\ parsed[1] \o Q = symbol
           /\ (stage = "grouped" /\ parsed[1] = << >>) => grouped_data = << >>
           /\ \A e \in Range(grouped_data) : e.key # << >>

(* the symbol is a vocabulary entry, its ticker is otherwise valid, and    *)
(* the grouping has run                                                    *)
C9_Witness ==
    /\ stage = "grouped"
    /\ symbol = USDT
    /\ parsed = << << >>, USDT >>
    /\ tickers[1].lastPrice = Num(3)
    /\ tickers[1].volume24h = Num(150)

(* C10: the list scan_opportunities returns is sorted non-increasing by    *)
(* spread_percent, keeps records of equal spread_percent in the order they *)
(* were produced, has at most 20 records, and holds the 20 that come first *)
(* in that order when more qualify.                                        *)
ProducedAt(o) == CHOOSE i \in 1..Len(produced) : produced[i] = o

Precedes(x, y) ==
    \/ x.spread_percent > y.spread_percent
    \/ x.spread_percent = y.spread_percent /\ ProducedAt(x) < ProducedAt(y)

C10_Ranked ==
    stage = "returned" =>
        /\ Len(result) <= 20
        /\ Len(result) = IF Len(produced) <= 20 THEN Len(produced) ELSE 20
        /\ Range(result) \subseteq Range(produced)
        /\ \A i, j \in 1..Len(result) :
            i < j => /\ result[i].spread_percent >= result[j].spread_percent
                     /\ Precedes(result[i], result[j])
        /\ \A x \in Range(produced) \ Range(result) :
            \A y \in Range(result) : Precedes(y, x)

(* more than 20 records qualify, with ties and with different spreads *)
C10_Witness ==
    /\ stage = "returned"
    /\ Len(produced) > 20
    /\ Len(result) = 20
    /\ \E i, j \in 1..Len(result) :
        i # j /\ result[i].spread_percent = result[j].spread_percent
    /\ \E x \in Range(produced) \ Range(result) :
        x.spread_percent = result[20].spread_percent
    /\ result[1].spread_percent > result[20].spread_percent

====
